---- MODULE Spec2Model ----
(***************************************************************************)
(* Model of the wallpaper plugin (src/src/wallpaper.cpp): one consumer     *)
(* thread running the compositor's event loop (signal handlers, timer     *)
(* callback, eventfd handlers, frame hooks, fini) and one curl worker      *)
(* thread per in-flight download.  Consumer handlers are atomic with       *)
(* respect to each other; worker steps interleave with them.               *)
(***************************************************************************)
EXTENDS Naturals, FiniteSets, Sequences, TLC

\* ------------------------------------------------------------------ bounds
NTiles == 2            \* tiles of the workspace grid (wsize.width * wsize.height)
NGeoms == 2            \* distinct output sizes (width x height) the host may set
MaxGeomChanges == 1    \* changes of the output size in one run
NViews == 3            \* views that can be forced fullscreen
MaxVisits == 2         \* the visits of one map entry are counted up to this
FadeSteps == 4         \* time units that alpha_fade takes (option display_duration)
DisplayDuration == 3   \* time units after which the display timer expires
NWorkspaces == 4       \* workspaces that the viewport of the output can show

\* ------------------------------------------------------- program constants
MaxFailures == 3       \* "++wp.failed_counter > 3"
MaxChunks == 10        \* "chunks++ < 10"

\* The largest workspace grid the host is taken to set.
MaxLayout == NTiles + 1

Tiles == 1..NTiles
Geoms == 1..NGeoms

\* A texture slot (unique_ptr<simple_texture_t>): NoTex is the null pointer.
\* A decoded image is identified by the geometry recorded for its fetch.
NoTex == 0

\* Outcome of the two allocations of update_wallpaper.
Alloc == {"ok", "eventfd", "memstream"}

VARIABLES
    wallpapers,          \* tile -> fields of class wallpaper and of its worker
    og,                  \* output->get_relative_geometry() (size only)
    cycle,               \* option wallpaper/cycle
    timer,               \* wf::wl_timer: "off", "retry" (RETRY_TIMEOUT), "cycle" (cycle_time)
    hook_set,            \* the flag hook_set
    hooks,               \* how often post_hook and pre_hook are registered with output->render
    fade,                \* fade_animation: "stopped", "running" (progress 0) or "late" (progress > 0)
    wallpaper_shutdown,  \* shutdown flag read by the workers
    gchanges,            \* changes of the output size so far
    wsize,               \* output->workspace->get_workspace_grid_size(), in tiles
    ev                   \* outcome of download_complete, when it was the last step

vars == <<wallpapers, og, cycle, timer, hook_set, hooks, fade, wallpaper_shutdown, gchanges, wsize, ev>>

\* The other plugins of the repository that are loaded on the same output.
\* Their classes have members of the same names as wayfire_wallpaper_screen
\* (timer, hook_set, ...): each is one record with the member names as fields.
VARIABLES
    force_fullscreen,    \* wayfire_force_fullscreen
    workspace_names      \* wayfire_workspace_names_screen

allvars == <<vars, force_fullscreen, workspace_names>>

\* wayfire_view values, in the order of std::map<wayfire_view, ...>.
Views == 1..NViews

\* backgrounds.end()
End == NViews + 1

\* wayfire_force_fullscreen after init().  backgrounds: the keys of the map;
\* transformer: how the view_2D of each entry scales ("none": no entry);
\* connected: output_config_changed and the other signals are connected;
\* pc: the handler the plugin is in; it: the iterator of its loop; visits:
\* how often the loop body has run for each entry in the current call.
NewForceFullscreen ==
    [ backgrounds     |-> {},
      transformer     |-> [v \in Views |-> "none"],
      preserve_aspect |-> FALSE,
      connected       |-> FALSE,
      pc              |-> "idle",
      it              |-> End,
      visits          |-> [v \in Views |-> 0] ]

\* wayfire_workspace_names_screen after init(): "alpha_fade.set(0, 0)",
\* "timed_out = false".  timer: whether it is connected, and the time units
\* left until it expires (0: the callback is due).  alpha_fade: start and end
\* value and the time units elapsed; it is running while that is below
\* FadeSteps.  vp: the workspace that the output shows, whose name the
\* overlay renders.
NewWorkspaceNames ==
    [ vp         |-> 1,
      hook_set   |-> FALSE,
      timed_out  |-> FALSE,
      timer      |-> [connected |-> FALSE, left |-> 0],
      alpha_fade |-> [start |-> 0, end |-> 0, progress |-> FadeSteps] ]

\* The tiles that a loop over the current workspace grid size reaches.  The
\* vector wallpapers is sized in init() and nowhere else, so that DOMAIN
\* wallpapers is Tiles throughout.
Layout == {t \in Tiles : t <= wsize}

\* class wallpaper after construction (plus the state of its worker thread).
NewWallpaper ==
    [ geometry        |-> 0,
      failed_counter  |-> 0,
      downloaded      |-> FALSE,
      download_failed |-> FALSE,
      thread          |-> FALSE,
      from            |-> NoTex,
      to              |-> NoTex,
      tmp             |-> NoTex,
      sig_fd          |-> FALSE,     \* eventfd open
      image_fp        |-> FALSE,     \* memstream open (image_ptr allocated)
      event_source    |-> FALSE,     \* registered with the event loop
      image_size      |-> 0,         \* 0: empty body, 1: some bytes
      wk              |-> "none",    \* worker: "none", "loop", "done" (returned)
      live            |-> 0,         \* worker threads started and not joined
      sig             |-> 0,         \* eventfd counter (0: not readable)
      chunks          |-> 0,         \* curl_download's local counter
      flagged         |-> FALSE,     \* the running worker set download_failed
      leaked          |-> FALSE ]    \* a resource was overwritten while open

\* ev: what the last step did, when it was download_complete (op "complete",
\* the tile, the branch taken and what decided it), fini (op "fini", the
\* number of worker threads it joined), the timer callback (op "timeout") or
\* a post_hook that found the animation stopped (op "post_hook", the number
\* of from buffers it released); NoEv after any other step.  over: the state
\* of the animation that a commit found.
Ev(op, t, out, why) == [op |-> op, t |-> t, out |-> out, why |-> why, over |-> ""]
NoEv == Ev("", 0, "", "")

\* The process has ended inside a handler (libjpeg's default error_exit).
Exited == ev.out = "exit"

\* The plugin is loaded: the host delivers signals, timer and frame events.
InLoop == ~wallpaper_shutdown /\ ~Exited

\* ---------------------------------------------------------------- clean_up
\* clean_up that also drops the displayed image
clean_up_blanking(w) ==
    [w EXCEPT !.event_source = FALSE, !.live = IF w.live > 0 THEN w.live - 1 ELSE 0,
              !.wk = "none", !.thread = FALSE, !.image_fp = FALSE, !.image_size = 0,
              !.sig_fd = FALSE, !.sig = 0, !.chunks = 0, !.flagged = FALSE,
              !.to = NoTex]

\* clean_up that closes the buffer and the eventfd of a running worker
clean_up_no_join(w) ==
    [w EXCEPT !.event_source = FALSE, !.image_fp = FALSE, !.image_size = 0,
              !.sig_fd = FALSE]

\* clean_up(wp): remove the event source, join and reset the thread, close
\* and free the memstream, close the eventfd.  image_size describes no
\* buffer any more and is not read before the next open_memstream sets it.
clean_up(w) ==
    [w EXCEPT !.event_source = FALSE,
              !.live = IF w.live > 0 THEN w.live - 1 ELSE 0,
              !.wk = "none",
              !.thread = FALSE,
              !.image_fp = FALSE,
              !.image_size = 0,
              !.sig_fd = FALSE,
              !.sig = 0,
              !.chunks = 0,
              !.flagged = FALSE]

\* ------------------------------------------------------- update_wallpaper
\* s is [w |-> wallpapers, timer |-> timer, og |-> geometry]; a is the
\* outcome of the allocations.
start_fetch(w, geom) ==
    [w EXCEPT !.sig_fd = TRUE,
              !.image_fp = TRUE,
              !.image_size = 0,
              !.geometry = geom,
              !.event_source = TRUE,
              !.thread = TRUE,
              !.wk = "loop",
              !.live = w.live + 1,
              !.sig = 0,
              !.chunks = 0,
              !.flagged = FALSE,
              !.leaked = w.leaked \/ w.sig_fd \/ w.image_fp \/ w.event_source]

\* update_wallpaper without the test of the thread handle
update_wallpaper_unguarded(s, t, a) ==
    IF a = "eventfd"
      THEN [s EXCEPT !.timer = "off", !.w[t].sig_fd = FALSE]
      ELSE IF a = "memstream"
        THEN [s EXCEPT !.timer = "off", !.w[t].sig_fd = FALSE, !.w[t].image_fp = FALSE]
        ELSE [s EXCEPT !.w[t] = start_fetch(s.w[t], s.og)]

\* update_wallpaper that leaves the timer alone when an allocation fails
update_wallpaper_keep_timer(s, t, a) ==
    IF s.w[t].thread
      THEN [s EXCEPT !.timer = "retry"]
      ELSE IF a = "eventfd"
        THEN [s EXCEPT !.w[t].sig_fd = FALSE]
        ELSE IF a = "memstream"
          THEN [s EXCEPT !.w[t].sig_fd = FALSE, !.w[t].image_fp = FALSE]
          ELSE [s EXCEPT !.w[t] = start_fetch(s.w[t], s.og)]

\* update_wallpaper that forgets the eventfd when open_memstream fails
update_wallpaper_leaky(s, t, a) ==
    IF s.w[t].thread
      THEN [s EXCEPT !.timer = "retry"]
      ELSE IF a = "eventfd"
        THEN [s EXCEPT !.timer = "off", !.w[t].sig_fd = FALSE]
        ELSE IF a = "memstream"
          THEN [s EXCEPT !.timer = "off", !.w[t].sig_fd = TRUE, !.w[t].image_fp = FALSE]
          ELSE [s EXCEPT !.w[t] = start_fetch(s.w[t], s.og)]

update_wallpaper(s, t, a) ==
    IF s.w[t].thread
      THEN [s EXCEPT !.timer = "retry"]
      ELSE IF a = "eventfd"
        THEN [s EXCEPT !.timer = "off", !.w[t].sig_fd = FALSE]
        ELSE IF a = "memstream"
          THEN [s EXCEPT !.timer = "off", !.w[t].sig_fd = FALSE, !.w[t].image_fp = FALSE]
          ELSE [s EXCEPT !.w[t] = start_fetch(s.w[t], s.og)]

\* update_texture that fetches for downloaded tiles too
update_texture_always(s, t, a) ==
    update_wallpaper([s EXCEPT !.w[t].failed_counter = 0], t, a)

update_texture(s, t, a) ==
    LET s1 == [s EXCEPT !.w[t].failed_counter = 0]
    IN  IF ~s1.w[t].downloaded THEN update_wallpaper(s1, t, a) ELSE s1

RECURSIVE update_from(_, _, _)
update_from(s, t, allocs) ==
    IF t > NTiles \/ t > wsize THEN s
    ELSE update_from(update_texture(s, t, allocs[t]), t + 1, allocs)

update_textures(s, allocs) ==
    update_from([s EXCEPT !.timer = "off"], 1, allocs)

Screen == [w |-> wallpapers, timer |-> timer, og |-> og]

\* The allocation outcomes that matter: a tile that update_texture does not
\* fetch for allocates nothing.
AllOk == [t \in Tiles |-> "ok"]
Allocs == {al \in [Tiles -> Alloc] :
             \A t \in Tiles : (wallpapers[t].thread \/ wallpapers[t].downloaded) => al[t] = "ok"}

\* -------------------------------------------------------------------- init
\* init(): create the tiles, then update_textures().
Init ==
    /\ og = 1
    /\ gchanges = 0
    /\ cycle \in BOOLEAN
    /\ wsize = NTiles
    /\ force_fullscreen = NewForceFullscreen
    /\ workspace_names = NewWorkspaceNames
    /\ hook_set = FALSE
    /\ hooks = 0
    /\ fade = "stopped"
    /\ wallpaper_shutdown = FALSE
    /\ ev = NoEv
    /\ \E allocs \in [Tiles -> Alloc] :
         LET s == update_textures(
                    [w |-> [t \in Tiles |-> NewWallpaper], timer |-> "off", og |-> og],
                    allocs)
         IN  /\ wallpapers = s.w
             /\ timer = s.timer

\* ------------------------------------------------------------ curl_download
\* One iteration of the do/while loop.  mc: "failed" when curl_multi_perform
\* or curl_multi_wait returned an error, else "ok"; bytes: write_cb was
\* called with data; still: still_running.  The iteration that leaves the
\* loop goes on to the end of curl_download: the curl cleanup and the write
\* to sig_fd.
\* a loop condition that ignores the chunk counter
keep_going_unbounded(still, shutdown, chunks) == still

\* "still_running && (!wp.wps->wallpaper_shutdown || chunks++ < 10)"
keep_going(still, shutdown, chunks) == still /\ (~shutdown \/ chunks < MaxChunks)

\* "chunks++" is evaluated only when still_running and wallpaper_shutdown
\* hold; the loop as written never takes it beyond MaxChunks + 1.
bump(still, shutdown, chunks) ==
    IF still /\ shutdown /\ chunks <= MaxChunks THEN chunks + 1 ELSE chunks

\* a worker that returns without writing to sig_fd
worker_exit_silent(w) == [w EXCEPT !.wk = "done"]

\* The end of curl_download: the curl cleanup, "write(wp.sig_fd, ...)" and
\* the return.
worker_exit(w) == [w EXCEPT !.wk = "done", !.sig = w.sig + 1]

WorkerIterate(t, mc, bytes, still) ==
    LET w == wallpapers[t]
        wrote == bytes /\ ~wallpaper_shutdown
        w1 == IF wrote THEN [w EXCEPT !.image_size = 1] ELSE w
        again == keep_going(still, wallpaper_shutdown, w.chunks)
        bumped == bump(still, wallpaper_shutdown, w.chunks)
    IN  /\ w.wk = "loop"
        /\ ~Exited
        /\ wallpapers' = [wallpapers EXCEPT ![t] =
              IF mc # "ok"
                THEN worker_exit([w1 EXCEPT !.download_failed = TRUE, !.flagged = TRUE])
                ELSE IF again
                  THEN [w1 EXCEPT !.chunks = bumped]
                  ELSE worker_exit([w1 EXCEPT !.chunks = bumped])]
        /\ ev' = NoEv
        /\ UNCHANGED <<og, cycle, timer, hook_set, hooks, fade, wallpaper_shutdown, gchanges, wsize, force_fullscreen, workspace_names>>

\* -------------------------------------------------------- download_complete
\* a handler that never compares geometries
stale_never(w, geom) == FALSE

\* "wp.geometry.width != og.width || wp.geometry.height != og.height"
stale(w, geom) == w.geometry # geom

\* a handler that accepts an empty body
fetch_failed_flag_only(w) == w.download_failed

\* "wp.download_failed || !wp.image_size"
fetch_failed(w) == w.download_failed \/ w.image_size = 0

\* a threshold that is one too high
too_many_late(n) == n > MaxFailures + 1

\* a threshold that is one too low
too_many_early(n) == n >= MaxFailures

\* "++wp.failed_counter > 3" (n is the incremented counter)
too_many(n) == n > MaxFailures

\* a handler that gives up without arming the timer
backoff_unarmed(tm) == tm

\* "if (!s.timer.is_connected()) s.timer.set_timeout(RETRY_TIMEOUT, ...)"
backoff_timer(tm) == IF tm = "off" THEN "retry" ELSE tm

\* a barrier that is satisfied by any one tile
all_done_some(W) == \E u \in Tiles : W[u].downloaded

\* the all_done loop over the grid
all_done(W) == \A u \in Layout : W[u].downloaded

\* a rotation that shows the old image again
rotate_keep(w) ==
    [w EXCEPT !.from = w.tmp, !.to = w.to, !.tmp = NoTex,
              !.downloaded = FALSE, !.download_failed = FALSE]

\* the body of the swap loop
rotate(w) ==
    [w EXCEPT !.from = w.to,
              !.to = w.tmp,
              !.tmp = NoTex,
              !.downloaded = FALSE,
              !.download_failed = FALSE]

\* The flag and the registrations it stands for.
Hooks == [hook_set |-> hook_set, hooks |-> hooks]

\* an activate() that registers the hooks whatever the flag says
activate_unguarded(h) == [hook_set |-> TRUE, hooks |-> h.hooks + 1]

\* activate(): "if (hook_set) return;", add_effect for post_hook and
\* pre_hook, "hook_set = true"
activate(h) ==
    IF h.hook_set THEN h ELSE [hook_set |-> TRUE, hooks |-> h.hooks + 1]

\* a deactivate() that leaves the hooks in place
deactivate_never(h) == h

\* deactivate(): "if (!hook_set) return;", rem_effect for both hooks,
\* "hook_set = false"
deactivate(h) ==
    IF ~h.hook_set THEN h ELSE [hook_set |-> FALSE, hooks |-> 0]

\* a commit that leaves the animation as it was
animate_keep(f) == f

\* "s.fade_animation.animate(0.0, 1.0)": the animation runs from progress 0
animate(f) == "running"

\* a commit that never arms the timer
arm_never(c, tm) == tm

\* "if (s.cycle) s.timer.set_timeout(s.cycle_time, s.cycle_timeout)":
\* set_timeout replaces a pending timeout
arm(c, tm) == IF c THEN "cycle" ELSE tm

\* What the memstream holds when the handler decodes it: a JPEG image
\* ("ok"), one that breaks off ("truncated": libjpeg warns and pads the
\* picture) or no JPEG at all ("invalid": jpeg_std_error's error_exit ends
\* the process).
Body == {"ok", "truncated", "invalid"}

\* A texture that does not hold the picture the server was asked for.
Partial == NGeoms + 1

\* a decoder that produces nothing
decode_nothing(w, jpeg) == NoTex

\* texture_from_jpeg_fp(wp.image_fp, *wp.tmp, ...): the texture left in tmp
decode(w, jpeg) == IF jpeg = "ok" THEN w.geometry ELSE Partial

\* The retry path ends with "wp.download_failed = false", executed after
\* update_wallpaper has started the new worker: an unsynchronised write to a
\* flag the worker writes.  race says what the new worker did before that
\* statement: "none" (it had not flagged a failure), or it had left its loop
\* with download_failed set, after no byte ("lost0") or some bytes ("lost1"),
\* and the handler's write overwrote the flag.
Race == {"none", "lost0", "lost1"}

retry_tail(w, race) ==
    IF race = "none"
      THEN [w EXCEPT !.download_failed = FALSE]
      ELSE [w EXCEPT !.download_failed = FALSE,
                     !.flagged = TRUE,
                     !.image_size = IF race = "lost1" THEN 1 ELSE 0,
                     !.wk = "done",
                     !.sig = 1]

\* an event loop that dispatches the handler whether or not sig_fd is readable
readable_always(w) == TRUE

\* The event source was added for WL_EVENT_READABLE: the event loop calls
\* download_complete when something was written to sig_fd ("mask &
\* WL_EVENT_READABLE"), and the handler reads it off.
readable(w) == w.sig > 0

\* The eventfd of tile t is readable: the handler runs on the consumer
\* thread.  a is the outcome of the allocations of an immediate retry, jpeg
\* what the decoder finds in the body.
DownloadCompleteBody(t, a, race, jpeg) ==
    LET w0 == [wallpapers[t] EXCEPT !.sig = 0]
        w1 == [w0 EXCEPT !.download_failed = w0.download_failed \/ stale(w0, og)]
        f2 == [clean_up(w1) EXCEPT !.failed_counter = w1.failed_counter + 1]
        sr == update_wallpaper(
                 [w |-> [wallpapers EXCEPT ![t] = f2], timer |-> timer, og |-> og], t, a)
        s2 == [w1 EXCEPT !.downloaded = TRUE, !.failed_counter = 0, !.tmp = decode(w1, jpeg)]
        W2 == [wallpapers EXCEPT ![t] = s2]
        W3 == IF all_done(W2)
                THEN [u \in Tiles |-> IF u \in Layout THEN rotate(W2[u]) ELSE W2[u]]
                ELSE W2
        W4 == [W3 EXCEPT ![t] = clean_up(W3[t])]
        why == IF fetch_failed(w1)
                 THEN IF w0.download_failed \/ w0.flagged \/ w0.image_size = 0
                        THEN "" ELSE "stale"
                 ELSE IF jpeg # "ok" THEN "baddecode"
                 ELSE IF w0.flagged THEN "lostflag" ELSE ""
        decoding == w0.thread /\ ~wallpaper_shutdown /\ ~fetch_failed(w1)
        retrying == /\ w0.thread /\ ~wallpaper_shutdown /\ fetch_failed(w1)
                    /\ ~too_many(f2.failed_counter)
    IN  /\ wallpapers[t].event_source
        /\ readable(wallpapers[t])
        /\ ~Exited
        \* the inputs are read on the retry path, the body on the success path
        /\ ~retrying => (a = "ok" /\ race = "none")
        /\ ~decoding => jpeg = "ok"
        /\ UNCHANGED <<og, cycle, wallpaper_shutdown, gchanges, wsize, force_fullscreen, workspace_names>>
        /\ IF ~w0.thread
             THEN /\ wallpapers' = [wallpapers EXCEPT ![t] = w0]
                  /\ ev' = Ev("complete", t, "ignored", why)
                  /\ UNCHANGED <<timer, hook_set, hooks, fade>>
           ELSE IF wallpaper_shutdown
             THEN /\ wallpapers' = [wallpapers EXCEPT ![t] = clean_up(w0)]
                  /\ ev' = Ev("complete", t, "shutdown", why)
                  /\ UNCHANGED <<timer, hook_set, hooks, fade>>
           ELSE IF fetch_failed(w1)
             THEN IF too_many(f2.failed_counter)
                    THEN /\ wallpapers' = [wallpapers EXCEPT ![t] =
                                              [f2 EXCEPT !.download_failed = FALSE]]
                         /\ timer' = backoff_timer(timer)
                         /\ ev' = Ev("complete", t, "backoff", why)
                         /\ UNCHANGED <<hook_set, hooks, fade>>
                  ELSE IF sr.w[t].thread
                    THEN \* the new worker runs while the handler finishes
                         /\ wallpapers' = [sr.w EXCEPT ![t] = retry_tail(sr.w[t], race)]
                         /\ timer' = sr.timer
                         /\ ev' = Ev("complete", t, "retry", why)
                         /\ UNCHANGED <<hook_set, hooks, fade>>
                    ELSE /\ wallpapers' = [sr.w EXCEPT ![t].download_failed = FALSE]
                         /\ timer' = sr.timer
                         /\ ev' = Ev("complete", t, "noalloc", why)
                         /\ UNCHANGED <<hook_set, hooks, fade>>
           ELSE IF jpeg = "invalid"
             THEN /\ wallpapers' = W2
                  /\ ev' = Ev("complete", t, "exit", why)
                  /\ UNCHANGED <<timer, hook_set, hooks, fade>>
           ELSE IF all_done(W2)
             THEN /\ wallpapers' = W4
                  /\ fade' = animate(fade)
                  /\ hook_set' = activate(Hooks).hook_set
                  /\ hooks' = activate(Hooks).hooks
                  /\ timer' = arm(cycle, timer)
                  /\ ev' = [Ev("complete", t, "commit", why) EXCEPT !.over = fade]
             ELSE /\ wallpapers' = W4
                  /\ ev' = Ev("complete", t, "success", why)
                  /\ UNCHANGED <<timer, hook_set, hooks, fade>>

\* The handler when the body is a JPEG image.
DownloadComplete(t, a, race) == DownloadCompleteBody(t, a, race, "ok")

\* ---------------------------------------------------- signals and options
RunUpdateTextures(s, allocs) ==
    LET r == update_textures(s, allocs)
    IN  /\ wallpapers' = r.w
        /\ timer' = r.timer

\* cycle_timeout: the shared timer expired.
CycleTimeout(allocs) ==
    /\ InLoop
    /\ timer # "off"
    /\ RunUpdateTextures(Screen, allocs)
    /\ ev' = Ev("timeout", 0, "", "")
    /\ UNCHANGED <<og, cycle, hook_set, hooks, fade, wallpaper_shutdown, gchanges, wsize, force_fullscreen, workspace_names>>

\* workarea_changed
WorkareaChanged(allocs) ==
    /\ InLoop
    /\ RunUpdateTextures(Screen, allocs)
    /\ ev' = NoEv
    /\ UNCHANGED <<og, cycle, hook_set, hooks, fade, wallpaper_shutdown, gchanges, wsize, force_fullscreen, workspace_names>>

\* output_config_changed: kind "none" (no changed field), "source"
\* (OUTPUT_SOURCE_CHANGE) or "mode" (anything else; the host has set the
\* output's geometry to g before it emits the signal).
OutputConfigChanged(kind, g, allocs) ==
    /\ InLoop
    /\ IF kind = "mode"
         THEN /\ g # og => gchanges < MaxGeomChanges
              /\ og' = g
              /\ gchanges' = IF g # og THEN gchanges + 1 ELSE gchanges
              /\ RunUpdateTextures([Screen EXCEPT !.og = g], allocs)
         ELSE UNCHANGED <<og, gchanges, wallpapers, timer>>
    /\ ev' = NoEv
    /\ UNCHANGED <<cycle, hook_set, hooks, fade, wallpaper_shutdown, wsize, force_fullscreen, workspace_names>>

\* cycle_changed: the option wallpaper/cycle was set to b.
CycleChanged(b, allocs) ==
    /\ InLoop
    /\ cycle' = b
    /\ IF b
         THEN RunUpdateTextures(Screen, allocs)
         ELSE /\ timer' = "off"
              /\ UNCHANGED wallpapers
    /\ ev' = NoEv
    /\ UNCHANGED <<og, hook_set, hooks, fade, wallpaper_shutdown, gchanges, wsize, force_fullscreen, workspace_names>>

\* ------------------------------------------------------------ fade, hooks
\* The fade duration has elapsed: fade_animation.running() turns false.
FadeEnd ==
    /\ InLoop
    /\ fade # "stopped"
    /\ fade' = "stopped"
    /\ ev' = NoEv
    /\ UNCHANGED <<wallpapers, og, cycle, timer, hook_set, hooks, wallpaper_shutdown, gchanges, wsize, force_fullscreen, workspace_names>>

\* Part of the fade duration has elapsed: the progress is above 0.
FadeProgress ==
    /\ InLoop
    /\ fade = "running"
    /\ fade' = "late"
    /\ ev' = NoEv
    /\ UNCHANGED <<wallpapers, og, cycle, timer, hook_set, hooks, wallpaper_shutdown, gchanges, wsize, force_fullscreen, workspace_names>>

\* post_hook, run after each frame while it is registered.
PostHook ==
    /\ InLoop
    /\ hooks > 0
    /\ IF fade = "stopped"
         THEN /\ wallpapers' = [t \in Tiles |->
                                 IF t \in Layout
                                   THEN [wallpapers[t] EXCEPT !.from = NoTex]
                                   ELSE wallpapers[t]]
              /\ hook_set' = deactivate(Hooks).hook_set
              /\ hooks' = deactivate(Hooks).hooks
              /\ ev' = Ev("post_hook",
                          Cardinality({t \in Layout : wallpapers[t].from # NoTex}), "", "")
         ELSE /\ UNCHANGED <<wallpapers, hook_set, hooks>>
              /\ ev' = NoEv
    /\ UNCHANGED <<og, cycle, timer, fade, wallpaper_shutdown, gchanges, wsize, force_fullscreen, workspace_names>>

\* -------------------------------------------------------------------- fini
\* a fini that releases the textures without joining the worker
fini_tile_no_join(w) == [w EXCEPT !.from = NoTex, !.to = NoTex, !.tmp = NoTex]

\* a fini that joins the worker and keeps the textures
fini_tile_keep_shown(w) == IF w.thread THEN clean_up(w) ELSE w

\* The body of fini's loop for one tile; the join inside clean_up returns
\* when the worker has returned from curl_download.
fini_tile(w) ==
    [(IF w.thread THEN clean_up(w) ELSE w) EXCEPT
        !.from = NoTex, !.to = NoTex, !.tmp = NoTex]

\* fini(), up to its return.
Fini ==
    /\ InLoop
    /\ hook_set' = deactivate(Hooks).hook_set
    /\ hooks' = deactivate(Hooks).hooks
    /\ timer' = "off"
    /\ wallpaper_shutdown' = TRUE
    /\ wallpapers' = [t \in Tiles |->
                        IF t \in Layout THEN fini_tile(wallpapers[t]) ELSE wallpapers[t]]
    /\ ev' = Ev("fini", Cardinality({t \in Layout : wallpapers[t].live > 0}), "", "")
    /\ UNCHANGED <<og, cycle, fade, gchanges, wsize, force_fullscreen, workspace_names>>

\* ----------------------------------------------------------- specification
Worker ==
    \E t \in Tiles :
       \/ \E bytes \in BOOLEAN, still \in BOOLEAN : WorkerIterate(t, "ok", bytes, still)
       \/ \E bytes \in BOOLEAN : WorkerIterate(t, "failed", bytes, FALSE)

Consumer ==
    \/ \E t \in Tiles :
          \/ DownloadComplete(t, "ok", "none")
          \/ \E race \in Race \ {"none"} : DownloadComplete(t, "ok", race)
          \/ \E a \in Alloc \ {"ok"} : DownloadComplete(t, a, "none")
    \/ \E allocs \in Allocs : CycleTimeout(allocs)
    \/ \E allocs \in Allocs : WorkareaChanged(allocs)
    \/ \E kind \in {"none", "source"} : OutputConfigChanged(kind, og, AllOk)
    \/ \E g \in Geoms, allocs \in Allocs : OutputConfigChanged("mode", g, allocs)
    \/ CycleChanged(FALSE, AllOk)
    \/ \E allocs \in Allocs : CycleChanged(TRUE, allocs)
    \/ FadeEnd
    \/ PostHook
    \/ Fini

Next == Worker \/ Consumer

Spec == Init /\ [][Next]_vars

TypeOK ==
    /\ og \in Geoms
    /\ cycle \in BOOLEAN
    /\ timer \in {"off", "retry", "cycle"}
    /\ hook_set \in BOOLEAN
    /\ hooks \in 0..1
    /\ wsize \in 1..MaxLayout
    /\ fade \in {"stopped", "running", "late"}
    /\ wallpaper_shutdown \in BOOLEAN
    /\ gchanges \in 0..MaxGeomChanges
    /\ \A t \in Tiles :
         /\ wallpapers[t].failed_counter \in 0..(MaxFailures + 1)
         /\ wallpapers[t].live \in 0..1
         /\ wallpapers[t].chunks \in 0..(MaxChunks + 1)
         /\ wallpapers[t].wk \in {"none", "loop", "done"}

\* ------------------------------------------- a tile whose fetches never work
\* The plugin stays loaded and the server never delivers a body for FailTile:
\* its worker's write_cb is never called, so image_size stays 0.
FailTile == 1

WorkerFailing ==
    \E t \in Tiles :
       \/ \E bytes \in (IF t = FailTile THEN {FALSE} ELSE BOOLEAN), still \in BOOLEAN :
             WorkerIterate(t, "ok", bytes, still)
       \/ \E bytes \in (IF t = FailTile THEN {FALSE} ELSE BOOLEAN) :
             WorkerIterate(t, "failed", bytes, FALSE)

ConsumerFailing ==
    \/ \E t \in Tiles :
          \/ DownloadComplete(t, "ok", "none")
          \/ \E race \in (IF t = FailTile THEN {"lost0"} ELSE {"lost0", "lost1"}) :
                DownloadComplete(t, "ok", race)
          \/ \E a \in Alloc \ {"ok"} : DownloadComplete(t, a, "none")
    \/ \E allocs \in Allocs : CycleTimeout(allocs)
    \/ \E allocs \in Allocs : WorkareaChanged(allocs)
    \/ \E kind \in {"none", "source"} : OutputConfigChanged(kind, og, AllOk)
    \/ \E g \in Geoms, allocs \in Allocs : OutputConfigChanged("mode", g, allocs)
    \/ CycleChanged(FALSE, AllOk)
    \/ \E allocs \in Allocs : CycleChanged(TRUE, allocs)

NextFailing == WorkerFailing \/ ConsumerFailing

SpecFailing == Init /\ [][NextFailing]_vars

\* ================================================================ properties

\* C1: the barrier.  A handler invocation that marks its tile downloaded
\* commits exactly when every other tile is downloaded at that moment, and
\* no other step installs a new image in any tile's current slot.
C1_Barrier ==
    [][/\ \A t \in Tiles :
            (ev'.op = "complete" /\ ev'.t = t /\ ev'.out \in {"success", "commit"})
               => /\ ~wallpapers[t].downloaded
                  /\ (ev'.out = "commit")
                        <=> (\A u \in Tiles \ {t} : wallpapers[u].downloaded)
       /\ (\E t \in Tiles : wallpapers'[t].to # wallpapers[t].to
                              /\ wallpapers'[t].to # NoTex)
             => (ev'.op = "complete" /\ ev'.out = "commit")
       /\ (fade = "stopped" /\ fade' = "running") => ev'.out = "commit"]_vars

C1_Committed ==
    /\ ev.op = "complete" /\ ev.out = "commit"
    /\ \A t \in Tiles : wallpapers[t].to # NoTex /\ ~wallpapers[t].downloaded

\* C2: after a commit every tile shows an image that was fetched under the
\* output geometry current at the commit.
C2_SameGeometry ==
    (ev.op = "complete" /\ ev.out = "commit")
       => \A t \in Tiles : wallpapers[t].to = og

\* C3: the rotation.  After a commit every tile's previous slot holds what its
\* current slot held, its current slot holds what its pending slot held (for
\* the handled tile: the image just decoded), the pending slot is empty and
\* the tile is not downloaded.
C3_Rotation ==
    [][(ev'.op = "complete" /\ ev'.out = "commit")
          => \A u \in Tiles :
               LET pending == IF u = ev'.t THEN decode(wallpapers[u], "ok")
                                           ELSE wallpapers[u].tmp
               IN  /\ pending # NoTex
                   /\ wallpapers'[u].from = wallpapers[u].to
                   /\ wallpapers'[u].to = pending
                   /\ wallpapers'[u].tmp = NoTex
                   /\ ~wallpapers'[u].downloaded]_vars

C3_SecondCommit ==
    /\ ev.op = "complete" /\ ev.out = "commit"
    /\ \A t \in Tiles : wallpapers[t].from # NoTex /\ wallpapers[t].to # NoTex

\* C4 (as the code has it): a failed fetch handled while failed_counter is
\* below 3 starts a new fetch of the same tile inside the handler, unless
\* eventfd or open_memstream fails, and then no fetch is started and the
\* timer is disconnected; a failed fetch handled while failed_counter is 3
\* starts no fetch and leaves the shared timer armed with RETRY_TIMEOUT.
C4_Backoff ==
    [][\A t \in Tiles :
         (ev'.op = "complete" /\ ev'.t = t
            /\ ev'.out \in {"retry", "noalloc", "backoff"})
            => /\ wallpapers'[t].failed_counter = wallpapers[t].failed_counter + 1
               /\ wallpapers[t].failed_counter < MaxFailures
                    => \/ /\ wallpapers'[t].thread
                          /\ wallpapers'[t].live = 1
                          /\ wallpapers'[t].event_source
                       \/ /\ ev'.out = "noalloc"
                          /\ ~wallpapers'[t].thread
                          /\ timer' = "off"
               /\ wallpapers[t].failed_counter >= MaxFailures
                    => /\ wallpapers[t].failed_counter = MaxFailures
                       /\ ~wallpapers'[t].thread
                       /\ wallpapers'[t].live = 0
                       /\ timer' = "retry"]_vars

C4_FourthFailure ==
    /\ ev.op = "complete" /\ ev.out = "backoff"
    /\ wallpapers[ev.t].failed_counter = MaxFailures + 1
    /\ ~wallpapers[ev.t].thread
    /\ timer = "retry"

\* C4 (as the specification states it): each of the first three failures starts a new
\* fetch of the tile inside the handler; the fourth starts none and leaves
\* the timer armed with RETRY_TIMEOUT.
C4_AlwaysRetried ==
    [][\A t \in Tiles :
         (ev'.op = "complete" /\ ev'.t = t
            /\ ev'.out \in {"retry", "noalloc", "backoff"})
            => /\ wallpapers[t].failed_counter < MaxFailures
                    => wallpapers'[t].thread
               /\ wallpapers[t].failed_counter >= MaxFailures
                    => (~wallpapers'[t].thread /\ timer' = "retry")]_vars

C6_FailingTileBlocks ==
    [][/\ ev'.out # "commit"
       /\ fade' = "stopped"
       /\ ~wallpapers'[FailTile].downloaded
       /\ \A u \in Tiles :
            /\ wallpapers'[u].to = NoTex
            /\ wallpapers[u].downloaded
                 => /\ wallpapers'[u].downloaded
                    /\ wallpapers'[u].tmp = wallpapers[u].tmp
                    /\ wallpapers'[u].tmp # NoTex
                    /\ ~wallpapers'[u].thread]_vars

C6_OthersWaiting ==
    /\ wallpapers[FailTile].failed_counter = MaxFailures + 1
    /\ ev.op = "complete" /\ ev.t = FailTile /\ ev.out = "backoff"
    /\ \A u \in Tiles \ {FailTile} :
         wallpapers[u].downloaded /\ wallpapers[u].tmp # NoTex

\* C7: a tile's current slot changes only when a commit installs a new image
\* or when fini clears it.
C7_DisplayedSurvives ==
    [][\A t \in Tiles :
         \/ wallpapers'[t].to = wallpapers[t].to
         \/ /\ ev'.op = "complete" /\ ev'.out = "commit"
            /\ wallpapers'[t].to # NoTex
         \/ /\ ev'.op = "fini"
            /\ ~wallpaper_shutdown /\ wallpaper_shutdown'
            /\ wallpapers'[t].to = NoTex]_vars

C7_ShownDuringBackoff ==
    /\ ev.op = "complete" /\ ev.out = "backoff"
    /\ \A t \in Tiles : wallpapers[t].to # NoTex

\* C8: a handler invocation marks its tile downloaded only if the worker of
\* the handled fetch did not set download_failed.
C8_FlaggedNeverCompleted ==
    (ev.op = "complete" /\ ev.out \in {"success", "commit"})
       => ev.why # "lostflag"

\* C9: a tile has at most one worker thread, and has one exactly when its
\* thread handle is set.
C9_SingleWorker ==
    \A t \in Tiles :
       /\ wallpapers[t].live <= 1
       /\ wallpapers[t].thread <=> wallpapers[t].live = 1
       /\ wallpapers[t].wk # "none" <=> wallpapers[t].thread

C9_GuardTaken ==
    /\ timer = "retry"
    /\ \A t \in Tiles :
         /\ wallpapers[t].thread
         /\ wallpapers[t].live = 1
         /\ wallpapers[t].failed_counter = 0

\* C10: once fini has run no tile has a thread handle or a worker, and no
\* tile holds an eventfd, a memstream or an event source.
C10_ShutdownReleases ==
    wallpaper_shutdown
       => \A t \in Tiles :
            /\ ~wallpapers[t].thread
            /\ wallpapers[t].live = 0
            /\ wallpapers[t].wk = "none"
            /\ ~wallpapers[t].sig_fd
            /\ ~wallpapers[t].image_fp
            /\ ~wallpapers[t].event_source
            /\ ~wallpapers[t].leaked

C10_AllJoined ==
    /\ wallpaper_shutdown
    /\ ev.op = "fini" /\ ev.t = NTiles

\* -------------------------------------------------- fini, step by step
\* In Spec, Fini is fini() from call to return.  Here the consumer runs
\* fini's loop until it blocks in the thread join of clean_up, and goes on
\* when the worker it waits for has returned; workers run in between and see
\* wallpaper_shutdown.  No other handler runs while the consumer is in fini.
RECURSIVE fini_from(_, _)
fini_from(W, t) ==
    IF t > NTiles \/ t > wsize THEN W
    ELSE IF W[t].thread /\ W[t].wk = "loop"
      THEN [W EXCEPT ![t].event_source = FALSE]
      ELSE fini_from([W EXCEPT ![t] = fini_tile(W[t])], t + 1)

\* The tile whose worker fini is joining.
Joining == {t \in Layout : wallpapers[t].thread /\ \A u \in 1..(t - 1) : ~wallpapers[u].thread}

FiniReturned == wallpaper_shutdown /\ \A t \in Layout : ~wallpapers[t].thread

FiniBegin ==
    /\ InLoop
    /\ hook_set' = deactivate(Hooks).hook_set
    /\ hooks' = deactivate(Hooks).hooks
    /\ timer' = "off"
    /\ wallpaper_shutdown' = TRUE
    /\ wallpapers' = fini_from(wallpapers, 1)
    /\ ev' = Ev("fini", Cardinality({t \in Layout : wallpapers[t].live > 0}), "", "")
    /\ UNCHANGED <<og, cycle, fade, gchanges, wsize, force_fullscreen, workspace_names>>

FiniResume ==
    /\ wallpaper_shutdown
    /\ \E t \in Joining :
         /\ wallpapers[t].wk = "done"
         /\ wallpapers' = fini_from(wallpapers, t)
    /\ ev' = NoEv
    /\ UNCHANGED <<og, cycle, timer, hook_set, hooks, fade, wallpaper_shutdown, gchanges, wsize, force_fullscreen, workspace_names>>

\* The consumer thread is inside fini(): it dispatches no event.
InFini == wallpaper_shutdown /\ ~FiniReturned

ConsumerFini ==
    \/ \E t \in Tiles : ~InFini /\ DownloadComplete(t, "ok", "none")
    \/ FiniBegin
    \/ FiniResume

NextFini == Worker \/ ConsumerFini

SpecFini == Init /\ [][NextFini]_vars

\* The scheduler runs every worker thread, and the consumer leaves a join
\* whose thread has returned.
FairFini ==
    /\ WF_vars(FiniResume)
    /\ \A t \in Tiles :
         WF_vars(\E mc \in {"ok", "failed"}, bytes \in BOOLEAN, still \in BOOLEAN :
                    WorkerIterate(t, mc, bytes, still))

SpecFiniFair == SpecFini /\ FairFini

\* C11: the chunk counter is advanced only while wallpaper_shutdown is set; a
\* worker that is still in its loop under shutdown has been let through at
\* most MaxChunks times; and once the flag is set fini's joins all return.
C11_BoundedCancellation ==
    /\ [](\A t \in Tiles :
            /\ ~wallpaper_shutdown => wallpapers[t].chunks = 0
            /\ (wallpaper_shutdown /\ wallpapers[t].wk = "loop")
                  => wallpapers[t].chunks <= MaxChunks)
    /\ (wallpaper_shutdown ~> FiniReturned)

C11_LastExtraIteration ==
    /\ wallpaper_shutdown
    /\ \E t \in Tiles : wallpapers[t].wk = "loop" /\ wallpapers[t].chunks = MaxChunks

\* C12: a worker has written to its eventfd exactly once when it has
\* returned and not at all before; after the write it changes neither the
\* buffer nor the failure flag.
C12_OneSignal ==
    /\ [](\A t \in Tiles :
            /\ wallpapers[t].sig <= 1
            /\ wallpapers[t].wk = "done" <=> wallpapers[t].sig = 1)
    /\ [][\A t \in Tiles :
            (wallpapers[t].wk = "done" /\ wallpapers'[t].wk = "done")
               => /\ wallpapers'[t].sig = wallpapers[t].sig
                  /\ wallpapers'[t].image_size = wallpapers[t].image_size
                  /\ wallpapers'[t].download_failed = wallpapers[t].download_failed]_vars

C12_ForcedExitSignalled ==
    /\ wallpaper_shutdown
    /\ \E t \in Tiles :
         /\ wallpapers[t].wk = "done"
         /\ wallpapers[t].chunks = MaxChunks + 1
         /\ wallpapers[t].sig = 1

\* ------------------------------------------------ one cycle, end to end
\* Every allocation succeeds and the host sends no signal.  The server
\* answers tile (0,0) (here GoodTile, and likewise any further tile) with an
\* image and tile (1,0) (here LateTile) with nothing until that tile has
\* failed LateFailures times.
GoodTile == 1
LateTile == 2
LateFailures == 2

\* The fetch that tile t's worker is running gets a body.
Served(t) == t # LateTile \/ wallpapers[t].failed_counter >= LateFailures

ScenarioInit == Init /\ \A t \in Tiles : wallpapers[t].thread

ScenarioWorkerLoop(t) ==
    \E mc \in {"ok"} : WorkerIterate(t, mc, Served(t), TRUE)

ScenarioWorkerExit(t) ==
    \/ WorkerIterate(t, "ok", Served(t), FALSE)
    \/ ~Served(t) /\ WorkerIterate(t, "failed", FALSE, FALSE)

ScenarioHandle(t) == DownloadComplete(t, "ok", "none")

NextScenario ==
    \/ \E t \in Tiles : ScenarioWorkerLoop(t)
    \/ \E t \in Tiles : ScenarioWorkerExit(t)
    \/ \E t \in Tiles : ScenarioHandle(t)
    \/ FadeEnd
    \/ PostHook

SpecScenario == ScenarioInit /\ [][NextScenario]_vars

\* Transfers end, the event loop dispatches readable eventfds, the animation
\* runs out and frames are drawn.
FairScenario ==
    /\ \A t \in Tiles : WF_vars(ScenarioWorkerExit(t)) /\ WF_vars(ScenarioHandle(t))
    /\ WF_vars(FadeEnd)
    /\ WF_vars(PostHook)

SpecScenarioFair == SpecScenario /\ FairScenario

\* C13 (as the code has it): in this scenario LateTile is marked downloaded
\* only by the handling of its third completion; the only commit is the
\* step that handles the last of that completion and the other tiles': nothing
\* was shown before it, after it every tile's current slot holds the image
\* fetched in this cycle and the fade runs; the fade then stops and the
\* hooks are removed.
C13_EndToEnd ==
    /\ [][/\ (wallpapers'[LateTile].downloaded /\ ~wallpapers[LateTile].downloaded)
               => (ev'.t = LateTile /\ wallpapers[LateTile].failed_counter = LateFailures)
          /\ (ev'.op = "complete" /\ ev'.out = "commit")
               => /\ \/ /\ ev'.t = LateTile
                        /\ wallpapers[LateTile].failed_counter = LateFailures
                     \/ /\ ev'.t # LateTile
                        /\ wallpapers[LateTile].downloaded
                  /\ \A u \in Tiles \ {ev'.t} : wallpapers[u].downloaded
                  /\ \A t \in Tiles : wallpapers[t].to = NoTex
                  /\ \A t \in Tiles : wallpapers'[t].to = og
                  /\ fade' = "running"]_vars
    /\ <>[](/\ \A t \in Tiles : wallpapers[t].to = og /\ wallpapers[t].from = NoTex
            /\ fade = "stopped"
            /\ ~hook_set)

\* C13 (as the specification states it): the commit is the step that handles
\* LateTile's third completion.
C13_CommitAtThird ==
    [][(ev'.op = "complete" /\ ev'.out = "commit")
          => /\ ev'.t = LateTile
             /\ wallpapers[LateTile].failed_counter = LateFailures
             /\ \A t \in Tiles : wallpapers[t].to = NoTex
             /\ \A t \in Tiles : wallpapers'[t].to = og]_vars

C13_CycleShown ==
    /\ \A t \in Tiles : wallpapers[t].to = og /\ ~wallpapers[t].thread
    /\ fade = "stopped"
    /\ ~hook_set

\* C14: a step that changes the output size leaves every tile with a fetch
\* that was started for the new size.
C14_ResizeRestarts ==
    [][og' # og
          => \A t \in Tiles :
               /\ wallpapers'[t].thread
               /\ wallpapers'[t].wk = "loop"
               /\ wallpapers'[t].geometry = og'
               /\ wallpapers'[t].image_size = 0
               /\ ~wallpapers'[t].downloaded]_vars

\* C15 (as the code has it): when the timer callback runs, a tile with a
\* fetch in flight keeps that fetch and gets no second worker, a downloaded
\* tile is left alone, and every other tile gets a fetch for the current
\* geometry if its eventfd and memstream can be created.
C15_TimerRefetches ==
    [][\A allocs \in Allocs :
         (ev'.op = "timeout" /\ CycleTimeout(allocs))
            => \A t \in Tiles :
                 /\ wallpapers[t].thread
                      => /\ wallpapers'[t].live = 1
                         /\ wallpapers'[t] = [wallpapers[t] EXCEPT !.failed_counter = 0]
                 /\ (~wallpapers[t].thread /\ wallpapers[t].downloaded)
                      => wallpapers'[t] = [wallpapers[t] EXCEPT !.failed_counter = 0]
                 /\ (~wallpapers[t].thread /\ ~wallpapers[t].downloaded)
                      => IF allocs[t] = "ok"
                           THEN /\ wallpapers'[t].thread
                                /\ wallpapers'[t].live = 1
                                /\ wallpapers'[t].wk = "loop"
                                /\ wallpapers'[t].geometry = og
                           ELSE ~wallpapers'[t].thread]_vars

C15_ExpiryAtBarrier ==
    /\ ev.op = "timeout"
    /\ \E t \in Tiles, u \in Tiles :
         /\ wallpapers[t].downloaded /\ ~wallpapers[t].thread
         /\ wallpapers[u].thread /\ wallpapers[u].wk = "loop"
         /\ wallpapers[u].failed_counter = 0 /\ wallpapers[u].image_size = 0

\* C15 (as the specification states it): when the timer callback runs, every
\* tile without a fetch in flight gets one, and a tile with a fetch in flight
\* gets no second worker.
C15_AllIdleRefetched ==
    [][ev'.op = "timeout"
          => \A t \in Tiles :
               /\ wallpapers[t].thread => wallpapers'[t].live = 1
               /\ ~wallpapers[t].thread => wallpapers'[t].thread]_vars

\* ----------------------------------------------------- bodies of any kind
\* Spec takes every body that arrives whole to be a JPEG image.  Here the
\* server may send anything; allocations succeed and the host sends no
\* signal.
ConsumerDecode ==
    \/ \E t \in Tiles, jpeg \in Body : DownloadCompleteBody(t, "ok", "none", jpeg)
    \/ CycleTimeout(AllOk)
    \/ FadeEnd
    \/ PostHook

NextDecode == Worker \/ ConsumerDecode

SpecDecode == Init /\ [][NextDecode]_vars

\* C16: a completion whose body cannot be decoded is handled as a failure:
\* the tile is not downloaded and its failure count has been incremented.
C16_DecodeErrorRetried ==
    (ev.op = "complete" /\ ev.why = "baddecode")
       => /\ ev.out \in {"retry", "noalloc", "backoff"}
          /\ ~wallpapers[ev.t].downloaded
          /\ wallpapers[ev.t].failed_counter >= 1

\* C17: while a tile has a worker, its download_failed flag holds what the
\* worker wrote: it is set exactly if the worker has set it.
C17_WorkerPrivate ==
    \A t \in Tiles :
       wallpapers[t].thread => (wallpapers[t].download_failed <=> wallpapers[t].flagged)

\* C18: a tile whose worker has not been joined still has its memstream and
\* its eventfd, and no fetch was started over resources that were still open.
C18_JoinBeforeReclaim ==
    \A t \in Tiles :
       /\ (wallpapers[t].live > 0 \/ wallpapers[t].wk # "none")
             => /\ wallpapers[t].thread
                /\ wallpapers[t].image_fp
                /\ wallpapers[t].sig_fd
       /\ ~wallpapers[t].leaked

C18_WaitingInJoin ==
    /\ wallpaper_shutdown
    /\ \E t \in Tiles :
         /\ wallpapers[t].wk = "loop"
         /\ ~wallpapers[t].event_source
         /\ wallpapers[t].image_fp
         /\ wallpapers[t].sig_fd

\* C19: between handler invocations a tile has an eventfd, an event source
\* and a memstream exactly if its thread handle is set, and none was
\* overwritten while open.
C19_ResourcesWithFetch ==
    \A t \in Tiles :
       /\ wallpapers[t].sig_fd <=> wallpapers[t].thread
       /\ wallpapers[t].event_source <=> wallpapers[t].thread
       /\ wallpapers[t].image_fp <=> wallpapers[t].thread
       /\ wallpapers[t].live = (IF wallpapers[t].thread THEN 1 ELSE 0)
       /\ ~wallpapers[t].leaked

C19_RetryWithoutMemory ==
    /\ ev.op = "complete" /\ ev.out = "noalloc"
    /\ ~wallpapers[ev.t].thread
    /\ ~wallpapers[ev.t].sig_fd
    /\ wallpapers[ev.t].failed_counter >= 1

ConsumerFade ==
    \/ \E t \in Tiles : DownloadComplete(t, "ok", "none")
    \/ CycleTimeout(AllOk)
    \/ WorkareaChanged(AllOk)
    \/ FadeProgress
    \/ FadeEnd
    \/ PostHook
    \/ Fini

NextFade == Worker \/ ConsumerFade

SpecFade == Init /\ [][NextFade]_vars

\* C21: the crossfade is started or restarted only by a commit, and by every
\* commit; the commit has then rotated the buffers of all tiles, and it is
\* the handler of the last outstanding completion: every other tile was
\* Completed, with its worker joined, before the handler ran.
C21_FadeAfterRotation ==
    [][/\ (fade' = "running" /\ fade # "running") => ev'.out = "commit"
       /\ ev'.out = "commit"
            => /\ fade' = "running"
               /\ wallpapers[ev'.t].thread
               /\ wallpapers[ev'.t].wk = "done"
               /\ \A u \in Tiles \ {ev'.t} :
                    /\ wallpapers[u].downloaded
                    /\ ~wallpapers[u].thread
                    /\ wallpapers'[u].to = wallpapers[u].tmp
               /\ wallpapers'[ev'.t].to = wallpapers[ev'.t].geometry
               /\ \A u \in Tiles :
                    /\ wallpapers'[u].to # NoTex
                    /\ wallpapers'[u].from = wallpapers[u].to
                    /\ wallpapers'[u].tmp = NoTex
                    /\ ~wallpapers'[u].downloaded]_vars

C21_FadeOverOldImage ==
    /\ ev.out = "commit"
    /\ fade = "running"
    /\ \A t \in Tiles :
         /\ wallpapers[t].from # NoTex
         /\ wallpapers[t].to # NoTex
         /\ wallpapers[t].tmp = NoTex

\* C22: a post_hook that runs when the animation is no longer running
\* releases the from buffer of every tile and removes the effect hooks, and
\* leaves the rest alone; a post_hook during the animation changes nothing.
\* A from buffer is held only while the hooks are registered, so the hook
\* that releases it does run; once the hooks are removed only a commit
\* registers them again.
C22_CrossfadeEnd ==
    /\ [](\A t \in Tiles : wallpapers[t].from # NoTex => hooks > 0)
    /\ [][/\ ev'.op = "post_hook"
               => /\ fade = "stopped" /\ fade' = "stopped"
                  /\ hooks > 0
                  /\ hooks' = 0
                  /\ ~hook_set'
                  /\ ev'.t = Cardinality({t \in Tiles : wallpapers[t].from # NoTex})
                  /\ \A t \in Tiles :
                       wallpapers'[t] = [wallpapers[t] EXCEPT !.from = NoTex]
          /\ (PostHook /\ fade # "stopped") => UNCHANGED <<wallpapers, hooks, hook_set, fade>>
          /\ (PostHook /\ fade = "stopped") => ev'.op = "post_hook"
          /\ (hooks = 0 /\ hooks' > 0) => ev'.out = "commit"]_vars

C22_OldImageReleased ==
    /\ ev.op = "post_hook"
    /\ ev.t = NTiles
    /\ hooks = 0
    /\ \A t \in Tiles :
         /\ wallpapers[t].from = NoTex
         /\ wallpapers[t].to # NoTex

\* C23: a commit that is handled while the crossfade of the previous commit
\* is running, at whatever progress, sets the animation back to progress 0
\* and leaves the one registration of the hooks as it is; the hooks are
\* registered at most once, and hook_set is true exactly when they are.
C23_HooksOnce ==
    /\ [](hooks \in 0..1 /\ (hook_set <=> hooks = 1))
    /\ [][(ev'.out = "commit" /\ fade # "stopped")
            => /\ ev'.over = fade
               /\ fade' = "running"
               /\ hooks = 1
               /\ hooks' = 1
               /\ hook_set']_vars

C23_RestartedFade ==
    /\ ev.out = "commit"
    /\ ev.over = "late"
    /\ fade = "running"
    /\ hooks = 1

\* C24: a commit made while the option cycle is on arms the shared timer
\* with cycle_time, whatever timeout was pending, and a commit made while it
\* is off leaves the timer alone.  While that timeout is pending the option
\* is on and every tile is idle, shows its image and holds no pending one,
\* so that its expiry starts a fetch for the current geometry on every tile
\* whose eventfd and memstream can be created.
C24_NextCycleArmed ==
    /\ [](timer = "cycle"
            => /\ cycle
               /\ \A t \in Tiles :
                    /\ ~wallpapers[t].thread
                    /\ ~wallpapers[t].downloaded
                    /\ wallpapers[t].failed_counter = 0
                    /\ wallpapers[t].to # NoTex)
    /\ [][/\ ev'.out = "commit" => timer' = (IF cycle THEN "cycle" ELSE timer)
          /\ (ev'.op = "timeout" /\ timer = "cycle")
               => \A allocs \in Allocs :
                    CycleTimeout(allocs)
                      => \A t \in Tiles :
                           IF allocs[t] = "ok"
                             THEN /\ wallpapers'[t].thread
                                  /\ wallpapers'[t].wk = "loop"
                                  /\ wallpapers'[t].geometry = og
                             ELSE ~wallpapers'[t].thread]_vars

C24_SecondCycleArmed ==
    /\ ev.out = "commit"
    /\ cycle
    /\ timer = "cycle"
    /\ \A t \in Tiles : wallpapers[t].from # NoTex

\* C25: when eventfd or open_memstream fails in update_wallpaper, the tile
\* gets no worker and keeps no eventfd, memstream or event source, its slots
\* and its downloaded flag are as before, and the timer is disconnected.
\* In the retry of a failed fetch every other tile is left exactly as it
\* was.  In a pass of update_textures the other tiles are treated as if the
\* failure had not happened (an idle tile that is not downloaded gets its
\* fetch when its own allocations succeed, any other tile keeps its state),
\* and the timer ends up armed only when a tile with a fetch in flight
\* comes after the last tile whose allocation failed.
C25_AllocFailureLocal ==
    [][/\ ev'.out = "noalloc"
            => /\ timer' = "off"
               /\ \A u \in Tiles \ {ev'.t} : wallpapers'[u] = wallpapers[u]
               /\ LET w == wallpapers[ev'.t]
                      v == wallpapers'[ev'.t]
                  IN  /\ ~v.thread /\ v.live = 0 /\ v.wk = "none"
                      /\ ~v.sig_fd /\ ~v.image_fp /\ ~v.event_source
                      /\ v.from = w.from /\ v.to = w.to /\ v.tmp = w.tmp
                      /\ v.downloaded = w.downloaded
       /\ ev'.op = "timeout"
            => \A allocs \in Allocs :
                 CycleTimeout(allocs)
                   => LET idle == {t \in Tiles : ~wallpapers[t].thread /\ ~wallpapers[t].downloaded}
                          failing == {t \in idle : allocs[t] # "ok"}
                      IN  /\ \A t \in failing :
                               wallpapers'[t] = [wallpapers[t] EXCEPT !.failed_counter = 0]
                          /\ \A t \in idle \ failing :
                               /\ wallpapers'[t].thread
                               /\ wallpapers'[t].wk = "loop"
                               /\ wallpapers'[t].geometry = og
                          /\ \A t \in Tiles \ idle :
                               wallpapers'[t] = [wallpapers[t] EXCEPT !.failed_counter = 0]
                          /\ failing # {}
                               => (timer' = "retry"
                                     <=> \E u \in Tiles :
                                           /\ wallpapers[u].thread
                                           /\ \A f \in failing : f < u)
                          /\ failing # {} => timer' \in {"off", "retry"}]_vars

C25_OthersKeepFetching ==
    /\ ev.out = "noalloc"
    /\ timer = "off"
    /\ wallpapers[ev.t].to # NoTex
    /\ \E u \in Tiles \ {ev.t} : wallpapers[u].thread /\ wallpapers[u].wk = "loop"

\* C26: from the moment fini has set wallpaper_shutdown, through its joins
\* and after its return, the timer is disconnected and the hooks are not
\* registered; when fini has returned, the from, to and tmp slots of every
\* tile are empty.
C26_ShutdownClears ==
    /\ wallpaper_shutdown
         => /\ timer = "off"
            /\ hooks = 0
            /\ ~hook_set
    /\ FiniReturned
         => \A t \in Tiles :
              /\ wallpapers[t].from = NoTex
              /\ wallpapers[t].to = NoTex
              /\ wallpapers[t].tmp = NoTex

\* fini has returned after a commit that had armed the cycle timer and
\* registered the hooks, and whose crossfade had not ended.
C26_ClearedAfterCommit ==
    /\ FiniReturned
    /\ cycle
    /\ fade = "running"
    /\ timer = "off"
    /\ hooks = 0
    /\ \A t \in Tiles : wallpapers[t].to = NoTex

\* C27: every thread join outside fini is made by download_complete for the
\* tile whose eventfd it was called for, and that tile's worker had then
\* written to the eventfd and returned from curl_download; a worker still in
\* its loop is joined by fini only.
C27_NoSteadyStateStall ==
    [][\A t \in Tiles :
         (\/ wallpapers'[t].live < wallpapers[t].live
          \/ (ev'.op = "complete" /\ ev'.t = t /\ ev'.out # "ignored")
          \/ (wallpapers[t].wk = "loop" /\ wallpapers'[t].wk = "none"))
            => \/ /\ ev'.op = "fini"
                  /\ wallpaper_shutdown'
               \/ /\ ev'.op = "complete" /\ ev'.t = t
                  /\ ~wallpaper_shutdown
                  /\ wallpapers[t].thread
                  /\ wallpapers[t].wk = "done"
                  /\ wallpapers[t].sig = 1]_vars

\* A handler has joined the finished worker of its tile and started the next
\* one while the worker of another tile is in its loop.
C27_JoinedFinishedOnly ==
    /\ ev.op = "complete" /\ ev.out = "retry"
    /\ wallpapers[ev.t].wk = "loop"
    /\ wallpapers[ev.t].live = 1
    /\ \E u \in Tiles \ {ev.t} : wallpapers[u].wk = "loop"

\* ------------------------------------------- the workspace grid changes
\* The host gives the output a workspace grid of n tiles.  The plugin
\* connects to "reserved-workarea" and "output-configuration-changed" only:
\* no code of it runs, and its loops read the new size the next time they
\* call get_workspace_grid_size().
LayoutChanged(n) ==
    /\ InLoop
    /\ n # wsize
    /\ wsize' = n
    /\ ev' = NoEv
    /\ UNCHANGED <<wallpapers, og, cycle, timer, hook_set, hooks, fade, wallpaper_shutdown, gchanges, force_fullscreen, workspace_names>>

\* A loop over a workspace grid that is larger than the vector indexes
\* wallpapers[x][y] past its end.  What it reads there is not defined: the
\* access faults and the process ends (this action), or it goes by and the
\* handler does to the tiles of the vector what it does otherwise (the
\* handlers themselves, which stay enabled).
OutOfGrid ==
    /\ ~Exited
    /\ wsize > NTiles
    /\ ev' = Ev("", 0, "exit", "")
    /\ UNCHANGED <<wallpapers, og, cycle, timer, hook_set, hooks, fade, wallpaper_shutdown, gchanges, wsize, force_fullscreen, workspace_names>>

ConsumerLayout ==
    \/ \E t \in Tiles : DownloadComplete(t, "ok", "none")
    \/ CycleTimeout(AllOk)
    \/ WorkareaChanged(AllOk)
    \/ FadeEnd
    \/ PostHook
    \/ \E n \in 1..MaxLayout : LayoutChanged(n)
    \/ OutOfGrid
    \/ Fini

NextLayout == Worker \/ ConsumerLayout

SpecLayout == Init /\ [][NextLayout]_vars

\* C28: the vector of tiles has as many tiles as the output's current
\* workspace grid, so that the loops over the grid size index existing
\* tiles only; and when the workspace grid changes no fetch of the old
\* grid is left in flight.
C28_GridMatchesLayout ==
    /\ [](Cardinality(DOMAIN wallpapers) = wsize)
    /\ [][wsize' # wsize => \A t \in Tiles : ~wallpapers'[t].thread]_vars

\* C29: failed_counter of every tile is between 0 and MaxFailures + 1, and a
\* tile whose count is MaxFailures + 1 has no worker.  The count goes up by
\* one at a time, in the handling of a failed fetch, and down only to 0.  A
\* fetch is started for a tile whose count is MaxFailures + 1 only in a
\* step that has set the count to 0.
C29_BoundedFailures ==
    /\ [](\A t \in Tiles :
            /\ wallpapers[t].failed_counter \in 0..(MaxFailures + 1)
            /\ wallpapers[t].failed_counter = MaxFailures + 1 => ~wallpapers[t].thread)
    /\ [][\A t \in Tiles :
            /\ wallpapers'[t].failed_counter > wallpapers[t].failed_counter
                 => /\ wallpapers'[t].failed_counter = wallpapers[t].failed_counter + 1
                    /\ ev'.op = "complete" /\ ev'.t = t
                    /\ ev'.out \in {"retry", "noalloc", "backoff"}
            /\ wallpapers'[t].failed_counter < wallpapers[t].failed_counter
                 => wallpapers'[t].failed_counter = 0
            /\ (wallpapers[t].failed_counter = MaxFailures + 1 /\ wallpapers'[t].thread)
                 => /\ wallpapers'[t].failed_counter = 0
                    /\ ev'.op # "complete"]_vars

\* One tile has given up after MaxFailures + 1 failures and waits for the
\* timer, while another is on a retry of its own.
C29_CountAtLimit ==
    /\ timer = "retry"
    /\ \E t \in Tiles, u \in Tiles :
         /\ wallpapers[t].failed_counter = MaxFailures + 1
         /\ ~wallpapers[t].thread
         /\ wallpapers[u].failed_counter \in 1..MaxFailures
         /\ wallpapers[u].thread

\* C30: while the plugin runs, a downloaded tile has no thread handle, no
\* live worker, no eventfd, memstream or event source, and a texture in tmp;
\* so a tile with a worker is not downloaded.  No step starts a fetch for a
\* downloaded tile, and a tile stops being downloaded only in a commit.
C30_CompletedQuiescent ==
    /\ [](InLoop
            => \A t \in Tiles :
                 wallpapers[t].downloaded
                   => /\ ~wallpapers[t].thread
                      /\ wallpapers[t].live = 0
                      /\ wallpapers[t].wk = "none"
                      /\ ~wallpapers[t].sig_fd
                      /\ ~wallpapers[t].image_fp
                      /\ ~wallpapers[t].event_source
                      /\ wallpapers[t].tmp # NoTex)
    /\ [][\A t \in Tiles :
            wallpapers[t].downloaded
              => /\ ~wallpapers'[t].thread
                 /\ wallpapers'[t].live = 0
                 /\ ~wallpapers'[t].downloaded => ev'.out = "commit"]_vars

\* A downloaded tile waits, released and with its image pending, while the
\* handler of another tile has just started that tile's retry.
C30_WaitingForRetry ==
    /\ ev.op = "complete" /\ ev.out = "retry"
    /\ wallpapers[ev.t].thread
    /\ \E t \in Tiles \ {ev.t} :
         /\ wallpapers[t].downloaded
         /\ wallpapers[t].tmp # NoTex
         /\ ~wallpapers[t].thread
         /\ ~wallpapers[t].sig_fd

\* C31: a commit made while the option cycle is off leaves the timer
\* disconnected, and while the option is off the timer does not expire on a
\* grid that shows a committed image on every tile and has nothing in
\* flight or pending: no fetch is started there without a workarea, output
\* or option event.
C31_NoRefreshWhenOff ==
    [][/\ (ev'.out = "commit" /\ ~cycle) => timer' = "off"
       /\ (/\ ev'.op = "timeout"
           /\ ~cycle
           /\ \A t \in Tiles :
                /\ ~wallpapers[t].thread
                /\ ~wallpapers[t].downloaded
                /\ wallpapers[t].failed_counter = 0
                /\ wallpapers[t].to # NoTex)
            => \A t \in Tiles : ~wallpapers'[t].thread]_vars

\* C32: while the plugin runs, the timer is armed whenever a tile waits for
\* a delayed retry, that is has failed MaxFailures + 1 times and has no
\* worker.
C32_BackoffRetried ==
    InLoop
      => \A t \in Tiles :
           (wallpapers[t].failed_counter > MaxFailures /\ ~wallpapers[t].thread)
              => timer # "off"

\* ------------------------------------------------------ progress to commit
\* The output geometry and the options stay as they are, every allocation
\* succeeds and fini is not called.  Fetches fail in any way and any number
\* of times, the workarea changes at any time.
ConsumerProgress ==
    \/ \E t \in Tiles, race \in Race : DownloadComplete(t, "ok", race)
    \/ CycleTimeout(AllOk)
    \/ WorkareaChanged(AllOk)

NextProgress == Worker \/ ConsumerProgress

SpecProgress == ScenarioInit /\ [][NextProgress]_vars

\* The worker of tile t leaves its loop.
WorkerExit(t) ==
    \E mc \in {"ok", "failed"}, bytes \in BOOLEAN : WorkerIterate(t, mc, bytes, FALSE)

\* A fetch of some tile ends in a failure: its worker leaves the loop with
\* download_failed set or with an empty body, in its own step or, for the
\* worker of an immediate retry, while the handler that started it finishes.
Fails ==
    \E t \in Tiles :
       /\ wallpapers'[t].wk = "done"
       /\ \/ wallpapers[t].wk = "loop"
          \/ (ev'.op = "complete" /\ ev'.t = t /\ ev'.out = "retry")
       /\ \/ wallpapers'[t].download_failed
          \/ wallpapers'[t].flagged
          \/ wallpapers'[t].image_size = 0

\* Every started fetch signals its completion, the event loop dispatches
\* every readable eventfd and every expired timer, and from some point on no
\* fetch fails.
FairProgress ==
    /\ \A t \in Tiles : WF_vars(WorkerExit(t))
    /\ \A t \in Tiles : WF_vars(\E race \in Race : DownloadComplete(t, "ok", race))
    /\ WF_vars(CycleTimeout(AllOk))
    /\ <>[][~Fails]_vars

SpecProgressFair == SpecProgress /\ FairProgress

\* C33: under these conditions, whenever a tile is fetching or waits for its
\* delayed retry a commit follows; init() leaves every tile fetching, so
\* that a commit does occur.
C33_ProgressToCommit ==
    (\E t \in Tiles : wallpapers[t].thread \/ wallpapers[t].failed_counter > MaxFailures)
       ~> (ev.out = "commit")

\* A tile has failed MaxFailures + 1 times and waits for the timer while
\* every other tile holds its image pending.
C33_WaitingAtLimit ==
    /\ timer = "retry"
    /\ \E t \in Tiles :
         /\ wallpapers[t].failed_counter = MaxFailures + 1
         /\ ~wallpapers[t].thread
         /\ \A u \in Tiles \ {t} : wallpapers[u].downloaded /\ ~wallpapers[u].thread

\* ---------------------------------------------------------- force-fullscreen
\* The wallpaper plugin takes no part: it stays as init() left it, with the
\* option cycle off and a fetch started on every tile.
InitFullscreen == Init /\ ~cycle /\ \A t \in Tiles : wallpapers[t].thread

\* setup_transform(view): scale_x and scale_y are made equal if
\* preserve_aspect is set.
setup_transform(ff, v) ==
    [ff EXCEPT !.transformer[v] = IF ff.preserve_aspect THEN "aspect" ELSE "fill"]

\* backgrounds.begin()
begin(bg) == IF bg = {} THEN End ELSE CHOOSE v \in bg : \A u \in bg : v <= u

\* What the body of "while (it != backgrounds.end())" leaves in it, in
\* update_backgrounds and in fini alike: the body does not assign it.
loop_it(bg, it) == it

visit(ff, v) ==
    [ff EXCEPT !.visits[v] = IF ff.visits[v] < MaxVisits THEN ff.visits[v] + 1 ELSE MaxVisits]

\* The call of update_backgrounds(), up to the first test of the loop.
update_backgrounds(ff) ==
    [ff EXCEPT !.pc = "update_backgrounds",
               !.it = begin(ff.backgrounds),
               !.visits = [v \in Views |-> 0]]

\* on_toggle_fullscreen with v the active view, activate_plugin succeeding:
\* toggle_fullscreen(v), that is activate(v) or deactivate(v).
ToggleFullscreen(v) ==
    LET ff == force_fullscreen
    IN  /\ ff.pc = "idle"
        /\ force_fullscreen' =
             IF v \notin ff.backgrounds
               THEN setup_transform([ff EXCEPT !.backgrounds = ff.backgrounds \cup {v},
                                               !.connected = TRUE], v)
               ELSE [ff EXCEPT !.backgrounds = ff.backgrounds \ {v},
                               !.transformer[v] = "none",
                               !.connected = IF Cardinality(ff.backgrounds) = 1
                                               THEN FALSE ELSE ff.connected]
        /\ UNCHANGED <<vars, workspace_names>>

\* preserve_aspect_option_changed: the option was set to b.
PreserveAspectChanged(b) ==
    /\ force_fullscreen.pc = "idle"
    /\ force_fullscreen' = update_backgrounds([force_fullscreen EXCEPT !.preserve_aspect = b])
    /\ UNCHANGED <<vars, workspace_names>>

\* output_config_changed of force-fullscreen; kind as for the wallpaper.
FullscreenOutputConfigChanged(kind) ==
    /\ force_fullscreen.pc = "idle"
    /\ force_fullscreen.connected
    /\ force_fullscreen' = IF kind = "mode"
                             THEN update_backgrounds(force_fullscreen)
                             ELSE force_fullscreen
    /\ UNCHANGED <<vars, workspace_names>>

\* One test of the loop of update_backgrounds and, if it holds, one run of
\* its body.
UpdateBackgroundsStep ==
    LET ff == force_fullscreen
    IN  /\ ff.pc = "update_backgrounds"
        /\ force_fullscreen' =
             IF ff.it = End
               THEN [ff EXCEPT !.pc = "idle"]
               ELSE [visit(setup_transform(ff, ff.it), ff.it) EXCEPT
                        !.it = loop_it(ff.backgrounds, ff.it)]
        /\ UNCHANGED <<vars, workspace_names>>

\* fini() of force-fullscreen, up to the first test of its loop.
FullscreenFini ==
    /\ force_fullscreen.pc = "idle"
    /\ force_fullscreen' = [force_fullscreen EXCEPT
                              !.pc = "fini",
                              !.it = begin(force_fullscreen.backgrounds),
                              !.visits = [v \in Views |-> 0]]
    /\ UNCHANGED <<vars, workspace_names>>

\* One test of the loop of fini and, if it holds, "it->second->close()".
FullscreenFiniStep ==
    LET ff == force_fullscreen
    IN  /\ ff.pc = "fini"
        /\ force_fullscreen' =
             IF ff.it = End
               THEN [ff EXCEPT !.pc = "unloaded"]
               ELSE [visit(ff, ff.it) EXCEPT !.it = loop_it(ff.backgrounds, ff.it)]
        /\ UNCHANGED <<vars, workspace_names>>

NextFullscreen ==
    \/ \E v \in Views : ToggleFullscreen(v)
    \/ \E b \in BOOLEAN : PreserveAspectChanged(b)
    \/ \E kind \in {"none", "source", "mode"} : FullscreenOutputConfigChanged(kind)
    \/ UpdateBackgroundsStep
    \/ FullscreenFini
    \/ FullscreenFiniStep

SpecFullscreen == InitFullscreen /\ [][NextFullscreen]_allvars

\* A handler that has been entered goes on running.
FairFullscreen == WF_allvars(UpdateBackgroundsStep) /\ WF_allvars(FullscreenFiniStep)

SpecFullscreenFair == SpecFullscreen /\ FairFullscreen

\* C34: a call of update_backgrounds and the loop of fini run their body at
\* most once for each entry of backgrounds, and return.
C34_HandlersTerminate ==
    /\ [](\A v \in Views : force_fullscreen.visits[v] <= 1)
    /\ (force_fullscreen.pc = "update_backgrounds") ~> (force_fullscreen.pc = "idle")
    /\ (force_fullscreen.pc = "fini") ~> (force_fullscreen.pc = "unloaded")

\* ----------------------------------------------------------- workspace-names
\* The wallpaper plugin and force-fullscreen take no part.
InitNames == Init /\ ~cycle /\ \A t \in Tiles : wallpapers[t].thread

\* timer.disconnect() and timer.set_timeout(display_duration, timeout)
TimerOff == [connected |-> FALSE, left |-> 0]
TimerSet == [connected |-> TRUE, left |-> DisplayDuration]

\* alpha_fade.running()
running(a) == a.progress < FadeSteps

\* alpha_fade.animate(from, to)
animate_fade(from, to) == [start |-> from, end |-> to, progress |-> 0]

\* alpha_fade.flip(): start and end change places; the time elapsed is
\* left as it is.
flip(a) == [a EXCEPT !.start = a.end, !.end = a.start]

\* viewport_changed: the output now shows workspace w.
NamesViewportChanged(w) ==
    LET n  == workspace_names
        n1 == [n EXCEPT !.hook_set = TRUE, !.vp = w]
        n2 == IF ~running(n1.alpha_fade)
                THEN IF ~n1.timer.connected
                       THEN [n1 EXCEPT !.alpha_fade = animate_fade(0, 1)]
                       ELSE n1
                ELSE IF n1.timed_out
                       THEN [n1 EXCEPT !.timed_out = FALSE, !.alpha_fade = flip(n1.alpha_fade)]
                       ELSE n1
        n3 == IF n2.timer.connected THEN [n2 EXCEPT !.timer = TimerSet] ELSE n2
    IN  /\ workspace_names' = n3
        /\ UNCHANGED <<vars, force_fullscreen>>

\* timeout: the display timer has expired.
NamesTimeout ==
    /\ workspace_names.timer.connected
    /\ workspace_names.timer.left = 0
    /\ workspace_names' = [workspace_names EXCEPT
                             !.alpha_fade = animate_fade(1, 0),
                             !.timer = TimerOff,
                             !.timed_out = TRUE]
    /\ UNCHANGED <<vars, force_fullscreen>>

\* post_hook of workspace-names, run after each frame while it is registered.
NamesPostHook ==
    LET n == workspace_names
    IN  /\ n.hook_set
        /\ workspace_names' =
             IF running(n.alpha_fade) THEN n
             ELSE IF n.timed_out
               THEN [n EXCEPT !.hook_set = FALSE, !.timed_out = FALSE]
             ELSE IF ~n.timer.connected
               THEN [n EXCEPT !.timer = TimerSet]
             ELSE n
        /\ UNCHANGED <<vars, force_fullscreen>>

\* A time unit of the animation passes.
NamesFadeTick ==
    /\ running(workspace_names.alpha_fade)
    /\ workspace_names' = [workspace_names EXCEPT !.alpha_fade.progress = @ + 1]
    /\ UNCHANGED <<vars, force_fullscreen>>

\* A time unit of the display timer passes.
NamesTimerTick ==
    /\ workspace_names.timer.connected
    /\ workspace_names.timer.left > 0
    /\ workspace_names' = [workspace_names EXCEPT !.timer.left = @ - 1]
    /\ UNCHANGED <<vars, force_fullscreen>>

NextNames ==
    \/ \E w \in 1..NWorkspaces : NamesViewportChanged(w)
    \/ NamesTimeout
    \/ NamesPostHook
    \/ NamesFadeTick
    \/ NamesTimerTick

SpecNames == InitNames /\ [][NextNames]_allvars

\* C35: the hooks are removed only when a fade-out that the timeout
\* started has finished; and a post_hook that finds a fade-in finished
\* leaves the hooks registered and the display timer armed.
C35_OverlayCycle ==
    [][/\ (workspace_names.hook_set /\ ~workspace_names'.hook_set)
            => /\ workspace_names.alpha_fade.end = 0
               /\ ~running(workspace_names.alpha_fade)
               /\ workspace_names.timed_out
       /\ (/\ NamesPostHook
           /\ ~running(workspace_names.alpha_fade)
           /\ workspace_names.alpha_fade.end = 1)
            => /\ workspace_names'.hook_set
               /\ workspace_names'.timer.connected
               /\ ~workspace_names.timer.connected
                    => workspace_names'.timer = TimerSet]_allvars
====
